---- MODULE Spec2Model ----
(***************************************************************************)
(* Model of the framework-independent helpers of the PEC numerical         *)
(* simulation scripts: create_bins / find_bin (fcn_bin.py),                *)
(* get_projector_geq_median, calc_sim_overhead and get_qc_ub (fcn_pec.py), *)
(* and the inline gamma_b expression of the first script revision; the     *)
(* copies of these helpers in pec/pec-num-sim.py; and get_rzz              *)
(* (components/rzz.py).                                                    *)
(*                                                                         *)
(* One behaviour is one call: Init draws the function and its arguments,   *)
(* the actions run the function body.  Python lists are sequences; a       *)
(* Python index i is the sequence index i+1.                               *)
(***************************************************************************)
EXTENDS Integers, Sequences, FiniteSets, TLC

\* ---- bounds of the model ------------------------------------------------
MaxBound    == 2      \* lower_bound ranges over -MaxBound..MaxBound
MaxWidth    == 2      \* width ranges over -1..MaxWidth
MaxQuantity == 3      \* quantity ranges over -1..MaxQuantity
MaxEdge     == 2      \* bin edges handed to find_bin range over 0..MaxEdge
MaxBins     == 2      \* find_bin is handed at most MaxBins bins
MaxLen      == 4      \* a probability vector has 1..MaxLen entries
ProbDen     == 6      \* probabilities are the multiples k/ProbDen, k in 0..ProbDen
MaxOvN      == 2      \* calc_sim_overhead: n ranges over 0..MaxOvN
MaxOvD      == 2      \* calc_sim_overhead: d ranges over 0..MaxOvD
EpsDen      == 4      \* error rates are the multiples k/EpsDen, k in 0..EpsDen-1
MaxDepth    == 3      \* get_qc_ub: d ranges over 0..MaxDepth

\* ---- generic helpers ----------------------------------------------------
\* all sequences over S of length 0..k
SeqUpTo(S, k) == UNION { [1..m -> S] : m \in 0..k }

RECURSIVE SumSeq(_)
SumSeq(s) == IF s = <<>> THEN 0 ELSE Head(s) + SumSeq(Tail(s))

\* ---- rationals: <<numerator, denominator>> with denominator > 0, in
\* lowest terms
RECURSIVE GCD(_, _)
GCD(a, b) == IF b = 0 THEN a ELSE GCD(b, a % b)

Rat(p, q) ==
    LET g == GCD(IF p < 0 THEN 0 - p ELSE p, q)
    IN  <<p \div g, q \div g>>

RLess(a, b) == a[1] * b[2] < b[1] * a[2]
RGeq(a, b)  == a[1] * b[2] >= b[1] * a[2]
RAdd(a, b)  == Rat(a[1] * b[2] + b[1] * a[2], a[2] * b[2])
RSub(a, b)  == Rat(a[1] * b[2] - b[1] * a[2], a[2] * b[2])
RMul(a, b)  == Rat(a[1] * b[1], a[2] * b[2])
\* division by a positive rational
RDiv(a, b)  == Rat(a[1] * b[2], a[2] * b[1])

RECURSIVE RPowInt(_, _)
RPowInt(a, k) == IF k = 0 THEN <<1, 1>> ELSE RMul(a, RPowInt(a, k - 1))

\* A positive real built from rationals by ** and *: coef * the product of
\* base ** exp over the entries <<base, exp>> of roots.  A power with an
\* integer exponent (or base 1) is evaluated into coef; a power with a
\* fractional exponent is kept as an entry of roots.
pow(base, exp) ==
    IF exp[2] = 1 THEN [coef |-> RPowInt(base, exp[1]), roots |-> <<>>]
    ELSE IF base = <<1, 1>> THEN [coef |-> <<1, 1>>, roots |-> <<>>]
    ELSE [coef |-> <<1, 1>>, roots |-> << <<base, exp>> >>]

mul(x, y) == [coef |-> RMul(x.coef, y.coef), roots |-> x.roots \o y.roots]

VARIABLES
    fn,           \* the function this behaviour calls
    pc,           \* "call" before the body has run, "done" after its return
    lower_bound,  \* create_bins argument
    width,        \* create_bins argument
    quantity,     \* create_bins argument
    bins,         \* create_bins result / find_bin argument
    value,        \* find_bin argument
    found,        \* find_bin result (a Python index, or -1)
    probs,        \* psi.probabilities(), each entry counted in units of 1/ProbDen
    state_list,   \* get_projector_geq_median: the 0/1 list
    projector,    \* get_projector_geq_median result: a matrix, as a list of rows
    n,            \* calc_sim_overhead / get_qc_ub argument: number of qubits
    d,            \* calc_sim_overhead / get_qc_ub argument: number of layers
    epsilon,      \* calc_sim_overhead argument: the error rate, a rational
    gamma_b,      \* calc_sim_overhead result
    single_gates, \* get_qc_ub argument: the list of single-qubit gates
    layer,        \* get_qc_ub: the loop variable of `for layer in range(d)`
    qi,           \* get_qc_ub: the qubit indices, shuffled in place
    qc,           \* get_qc_ub: the instructions of the circuit, in order
    namespace,    \* get_rzz: the module whose globals the body looks names up in
    line,         \* get_rzz: the source line of the next statement
    locals,       \* get_rzz: the local names bound so far
    qc_zz,        \* get_rzz: the circuit built, its instructions and global phase
    returned,     \* get_rzz: <<the object returned>>, or <<>> when none was
    exc           \* get_rzz: the exception the call raised, or "none"

binVars  == <<lower_bound, width, quantity, bins, value, found>>
projVars == <<probs, state_list, projector>>
ovVars   == <<epsilon, gamma_b>>
qcVars   == <<single_gates, layer, qi, qc>>
rzzVars  == <<namespace, line, locals, qc_zz, returned, exc>>

vars == <<fn, pc, binVars, projVars, n, d, ovVars, qcVars, rzzVars>>

\* ---- create_bins --------------------------------------------------------
\* loop state of create_bins: the lists bins and low_arr and the counter
create_bins_init(lb) == [bins |-> <<>>, low_arr |-> <<>>, count |-> lb]

\* mutant: the lower edge is read from low_arr[0] instead of low_arr[i]
create_bins_step_first(st, i, w) ==
    LET low == Append(st.low_arr, st.count)
    IN  [bins    |-> Append(st.bins, <<low[1], low[i + 1] + w>>),
         low_arr |-> low,
         count   |-> st.count + w]

\* mutant: the counter is not advanced by the width
create_bins_step_stuck(st, i, w) ==
    LET low == Append(st.low_arr, st.count)
    IN  [bins    |-> Append(st.bins, <<low[i + 1], low[i + 1] + w>>),
         low_arr |-> low,
         count   |-> st.count]

\* one iteration of `for i in range(quantity)`
create_bins_step(st, i, w) ==
    LET low == Append(st.low_arr, st.count)
    IN  [bins    |-> Append(st.bins, <<low[i + 1], low[i + 1] + w>>),
         low_arr |-> low,
         count   |-> st.count + w]

RECURSIVE create_bins_loop(_, _, _, _)
create_bins_loop(st, i, w, q) ==
    IF i >= q THEN st
    ELSE create_bins_loop(create_bins_step(st, i, w), i + 1, w, q)

create_bins(lb, w, q) == create_bins_loop(create_bins_init(lb), 0, w, q).bins

\* ---- find_bin -----------------------------------------------------------
\* mutant: the upper edge is taken as inclusive
in_bin_closed(v, b) == b[1] <= v /\ v <= b[2]

\* the chained comparison bins[i][0] <= value < bins[i][1]
in_bin(v, b) == b[1] <= v /\ v < b[2]

RECURSIVE find_bin_from(_, _, _)
find_bin_from(i, v, bs) ==
    IF i >= Len(bs) THEN -1
    ELSE IF in_bin(v, bs[i + 1]) THEN i
    ELSE find_bin_from(i + 1, v, bs)

\* mutant: the scan starts at range(1, len(bins))
find_bin_skip_first(v, bs) == find_bin_from(1, v, bs)

find_bin(v, bs) == find_bin_from(0, v, bs)

\* ---- get_projector_geq_median -------------------------------------------
\* sorted(data), by insertion
RECURSIVE insert_sorted(_, _)
insert_sorted(x, s) ==
    IF s = <<>> THEN <<x>>
    ELSE IF x <= Head(s) THEN <<x>> \o s
    ELSE <<Head(s)>> \o insert_sorted(x, Tail(s))

RECURSIVE sorted(_)
sorted(s) == IF s = <<>> THEN <<>> ELSE insert_sorted(Head(s), sorted(Tail(s)))

\* statistics.median: the middle value of the sorted data, or the mean of
\* the two middle values when the length is even
median(data) ==
    LET s == sorted(data)
        k == Len(data)
    IN  IF k % 2 = 1
        THEN Rat(s[(k \div 2) + 1], 1)
        ELSE Rat(s[k \div 2] + s[(k \div 2) + 1], 2)

\* mutant: a probability equal to the median is given a 0
state_entry_strict(p, med) ==
    IF RGeq(med, Rat(p, 1)) THEN <<0>>
    ELSE <<1>>

\* what one loop iteration appends to state_list
state_entry(p, med) ==
    IF RLess(Rat(p, 1), med) THEN <<0>>
    ELSE IF RGeq(Rat(p, 1), med) THEN <<1>>
    ELSE <<>>

RECURSIVE state_list_loop(_, _, _, _)
state_list_loop(i, ps, med, acc) ==
    IF i >= Len(ps) THEN acc
    ELSE state_list_loop(i + 1, ps, med, acc \o state_entry(ps[i + 1], med))

geq_median_list(ps) == state_list_loop(0, ps, median(ps), <<>>)

\* Statevector(v).to_operator(): the outer product |v><v| of a real vector
to_operator(v) == [i \in 1..Len(v) |-> [j \in 1..Len(v) |-> v[i] * v[j]]]

\* ---- calc_sim_overhead --------------------------------------------------
overhead_denom(eps) == RSub(<<1, 1>>, eps)
overhead_num1(eps)  == RAdd(<<1, 1>>, RDiv(eps, <<2, 1>>))
overhead_num2(eps)  == RAdd(<<1, 1>>, RDiv(RMul(<<7, 1>>, eps), <<8, 1>>))
overhead_exp1(nq, dl) == Rat(nq * dl, 2)

\* mutant: the CNOT exponent is taken as (n * d) / 2
overhead_exp2_half(nq, dl) == Rat(nq * dl, 2)

overhead_exp2(nq, dl) == Rat(nq * dl, 4)

calc_sim_overhead(nq, dl, eps) ==
    LET denom     == overhead_denom(eps)
        num1      == overhead_num1(eps)
        num2      == overhead_num2(eps)
        exp1      == overhead_exp1(nq, dl)
        exp2      == overhead_exp2(nq, dl)
        single_gb == pow(RDiv(num1, denom), exp1)
        cnot_gb   == pow(RDiv(num2, denom), exp2)
    IN  mul(single_gb, cnot_gb)

\* the inline expression of the first script revision:
\* ((1+epsilon/2)/(1-epsilon))**(n*d/2) * (((1+7*epsilon/8)/(1-epsilon))**(n*d/4))
gamma_b_inline(nq, dl, eps) ==
    mul(pow(RDiv(RAdd(<<1, 1>>, RDiv(eps, <<2, 1>>)), RSub(<<1, 1>>, eps)),
            RDiv(<<nq * dl, 1>>, <<2, 1>>)),
        pow(RDiv(RAdd(<<1, 1>>, RDiv(RMul(<<7, 1>>, eps), <<8, 1>>)), RSub(<<1, 1>>, eps)),
            RDiv(<<nq * dl, 1>>, <<4, 1>>)))

\* ---- get_qc_ub ----------------------------------------------------------
\* the gates of gate_list, by the names of gate_names
GateNames == <<"id", "h", "s", "t">>

\* list(range(k))
range_list(k) == [i \in 1..k |-> i - 1]

\* the outcomes of random.shuffle(q): every ordering of its elements
shuffles(q) ==
    { p \in [1..Len(q) -> { q[i] : i \in 1..Len(q) }] :
        \A i \in 1..Len(q) : \A j \in 1..Len(q) : p[i] = p[j] => i = j }

barrier(nq) == [name |-> "barrier", qubits |-> range_list(nq)]

\* odd layer: one gate of single_gates per qubit (pick[qubit+1] is the index
\* random.choice draws for that qubit), then a barrier
odd_layer(nq, gates, pick) ==
    [q \in 1..nq |-> [name |-> gates[pick[q]], qubits |-> <<q - 1>>]]
        \o <<barrier(nq)>>

\* mutant: the even branch appends no barrier
even_layer_no_barrier(nq, shuffled) ==
    LET ctrl == SubSeq(shuffled, 1, nq \div 2)
        test == SubSeq(shuffled, (nq \div 2) + 1, nq)
    IN  [i \in 1..(nq \div 2) |-> [name |-> "cx", qubits |-> <<ctrl[i], test[i]>>]]

\* even layer: qc.cx(ctrl, test) pairs the halves of the shuffled qubits
\* element by element, then a barrier
even_layer(nq, shuffled) ==
    LET ctrl == SubSeq(shuffled, 1, nq \div 2)
        test == SubSeq(shuffled, (nq \div 2) + 1, nq)
    IN  [i \in 1..(nq \div 2) |-> [name |-> "cx", qubits |-> <<ctrl[i], test[i]>>]]
            \o <<barrier(nq)>>

\* ---- the copies in pec/pec-num-sim.py -----------------------------------
\* create_bins of pec-num-sim.py: one iteration of `for i in range(quantity)`
sim_create_bins_step(st, i, w) ==
    LET low == Append(st.low_arr, st.count)
    IN  [bins    |-> Append(st.bins, <<low[i + 1], low[i + 1] + w>>),
         low_arr |-> low,
         count   |-> st.count + w]

RECURSIVE sim_create_bins_loop(_, _, _, _)
sim_create_bins_loop(st, i, w, q) ==
    IF i >= q THEN st
    ELSE sim_create_bins_loop(sim_create_bins_step(st, i, w), i + 1, w, q)

sim_create_bins(lb, w, q) ==
    sim_create_bins_loop([bins |-> <<>>, low_arr |-> <<>>, count |-> lb], 0, w, q).bins

\* mutant: the copy takes the lower edge as exclusive
sim_in_bin_open(v, b) == b[1] < v /\ v < b[2]

\* find_bin of pec-num-sim.py: bins[i][0] <= value < bins[i][1]
sim_in_bin(v, b) == b[1] <= v /\ v < b[2]

RECURSIVE sim_find_bin_from(_, _, _)
sim_find_bin_from(i, v, bs) ==
    IF i >= Len(bs) THEN -1
    ELSE IF sim_in_bin(v, bs[i + 1]) THEN i
    ELSE sim_find_bin_from(i + 1, v, bs)

sim_find_bin(v, bs) == sim_find_bin_from(0, v, bs)

\* get_projector_geq_med of pec-num-sim.py: what one loop iteration appends
sim_state_entry(p, med) ==
    IF RLess(Rat(p, 1), med) THEN <<0>>
    ELSE IF RGeq(Rat(p, 1), med) THEN <<1>>
    ELSE <<>>

RECURSIVE sim_state_list_loop(_, _, _, _)
sim_state_list_loop(i, ps, med, acc) ==
    IF i >= Len(ps) THEN acc
    ELSE sim_state_list_loop(i + 1, ps, med, acc \o sim_state_entry(ps[i + 1], med))

sim_geq_med_list(ps) == sim_state_list_loop(0, ps, median(ps), <<>>)

\* ---- get_rzz ------------------------------------------------------------
\* the names the body of get_rzz assigns: its locals
RzzLocalNames == {"qr_zz", "qc_zz"}

\* the global names of a module: rzz.py imports and defines nothing but
\* get_rzz; main.py imports the qiskit classes and pi and defines the gates
module_globals(m) ==
    IF m = "main"
    THEN {"QuantumRegister", "QuantumCircuit", "pi", "SY", "SYDG", "SDG", "get_rzz"}
    ELSE {"get_rzz"}

\* the lookup of a name in the body: a local when the body assigns it, a
\* global of the function's module otherwise
name_bound(name, m, loc) ==
    IF name \in RzzLocalNames THEN name \in loc ELSE name \in module_globals(m)

\* the statements of the body, by source line: the names each one reads
rzz_reads(l) ==
    CASE l = 3  -> {"QuantumRegister"}
      [] l = 4  -> {"QuantumCircuit", "qr_zz"}
      [] l = 5  -> {"qc_zz", "SDG"}
      [] l = 6  -> {"qc_zz", "SDG"}
      [] l = 7  -> {"qc_zz", "SY"}
      [] l = 8  -> {"qc_zz", "qr_zz"}
      [] l = 9  -> {"qc_zz", "SYDG"}
      [] l = 11 -> {"qc_zz", "pi"}
      [] l = 12 -> {"qc_rzz"}

\* line 10 is a comment
rzz_next_line(l) == IF l = 9 THEN 11 ELSE l + 1

\* the instruction qc_zz.append(gate, [qubit]) of lines 5, 6, 7 and 9 adds
rzz_appended(l) ==
    CASE l = 5 -> [name |-> "sdg",  qubits |-> <<0>>]
      [] l = 6 -> [name |-> "sdg",  qubits |-> <<1>>]
      [] l = 7 -> [name |-> "sy",   qubits |-> <<1>>]
      [] l = 9 -> [name |-> "sydg", qubits |-> <<1>>]

\* QuantumCircuit(qr_zz): no instructions, global phase 0 (in units of pi)
rzz_empty_circuit == [ops |-> <<>>, global_phase |-> <<0, 1>>]

\* ---- the calls ----------------------------------------------------------
NoBins     == lower_bound = 0 /\ width = 0 /\ quantity = 0 /\ bins = <<>>
                  /\ value = 0 /\ found = 0
NoProj     == probs = <<>> /\ state_list = <<>> /\ projector = <<>>
NoOverhead == epsilon = <<0, 1>> /\ gamma_b = <<>>
NoCircuit  == single_gates = <<>> /\ layer = 0 /\ qi = <<>> /\ qc = <<>>
NoSize     == n = 0 /\ d = 0
NoRzz      == namespace = "none" /\ line = 0 /\ locals = {}
                  /\ qc_zz = rzz_empty_circuit /\ returned = <<>> /\ exc = "none"

InitCreateBins ==
    /\ fn = "create_bins"
    /\ lower_bound \in (0 - MaxBound)..MaxBound
    /\ width \in (0 - 1)..MaxWidth
    /\ quantity \in (0 - 1)..MaxQuantity
    /\ bins = <<>> /\ value = 0 /\ found = 0
    /\ NoProj /\ NoOverhead /\ NoCircuit /\ NoSize

InitFindBin ==
    /\ fn = "find_bin"
    /\ bins \in SeqUpTo((0..MaxEdge) \X (0..MaxEdge), MaxBins)
    /\ value \in (0 - 1)..(MaxEdge + 1)
    /\ lower_bound = 0 /\ width = 0 /\ quantity = 0 /\ found = 0
    /\ NoProj /\ NoOverhead /\ NoCircuit /\ NoSize

\* a probability vector: non-negative entries that sum to 1
InitProjector ==
    /\ fn = "get_projector_geq_median"
    /\ probs \in { ps \in SeqUpTo(0..ProbDen, MaxLen) : SumSeq(ps) = ProbDen }
    /\ state_list = <<>> /\ projector = <<>>
    /\ NoBins /\ NoOverhead /\ NoCircuit /\ NoSize

\* 0 <= epsilon < 1
InitOverhead ==
    /\ fn = "calc_sim_overhead"
    /\ n \in 0..MaxOvN
    /\ d \in 0..MaxOvD
    /\ epsilon \in { Rat(k, EpsDen) : k \in 0..(EpsDen - 1) }
    /\ gamma_b = <<>>
    /\ NoBins /\ NoProj /\ NoCircuit

\* an even number of qubits (each CNOT layer pairs them up) and a non-empty
\* gate list
InitCircuit ==
    /\ fn = "get_qc_ub"
    /\ n \in {2, 4}
    /\ d \in 0..MaxDepth
    /\ single_gates \in {SubSeq(GateNames, 1, 1), SubSeq(GateNames, 2, 3)}
    /\ layer = 0 /\ qi = <<>> /\ qc = <<>>
    /\ NoBins /\ NoProj /\ NoOverhead

\* get_rzz takes no argument; its body runs with the globals of rzz.py, or
\* with those of main.py when the fragment is run in that script
InitRzz ==
    /\ fn = "get_rzz"
    /\ namespace \in {"rzz", "main"}
    /\ line = 3
    /\ locals = {} /\ qc_zz = rzz_empty_circuit /\ returned = <<>> /\ exc = "none"
    /\ NoBins /\ NoProj /\ NoOverhead /\ NoCircuit /\ NoSize

Init ==
    /\ pc = "call"
    /\ \/ InitCreateBins /\ NoRzz
       \/ InitFindBin /\ NoRzz
       \/ InitProjector /\ NoRzz
       \/ InitOverhead /\ NoRzz
       \/ InitCircuit /\ NoRzz
       \/ InitRzz

CallCreateBins ==
    /\ fn = "create_bins" /\ pc = "call"
    /\ bins' = create_bins(lower_bound, width, quantity)
    /\ pc' = "done"
    /\ UNCHANGED <<rzzVars, fn, lower_bound, width, quantity, value, found,
                   projVars, n, d, ovVars, qcVars>>

CallFindBin ==
    /\ fn = "find_bin" /\ pc = "call"
    /\ found' = find_bin(value, bins)
    /\ pc' = "done"
    /\ UNCHANGED <<rzzVars, fn, lower_bound, width, quantity, bins, value,
                   projVars, n, d, ovVars, qcVars>>

CallProjector ==
    /\ fn = "get_projector_geq_median" /\ pc = "call"
    /\ state_list' = geq_median_list(probs)
    /\ projector' = to_operator(geq_median_list(probs))
    /\ pc' = "done"
    /\ UNCHANGED <<rzzVars, fn, binVars, probs, n, d, ovVars, qcVars>>

CallOverhead ==
    /\ fn = "calc_sim_overhead" /\ pc = "call"
    /\ gamma_b' = calc_sim_overhead(n, d, epsilon)
    /\ pc' = "done"
    /\ UNCHANGED <<rzzVars, fn, binVars, projVars, n, d, epsilon, qcVars>>

\* qr, qc, qi: the empty circuit on n qubits and the index list
QcCreate ==
    /\ fn = "get_qc_ub" /\ pc = "call"
    /\ qc' = <<>>
    /\ qi' = range_list(n)
    /\ layer' = 0
    /\ pc' = "loop"
    /\ UNCHANGED <<rzzVars, fn, binVars, projVars, n, d, ovVars, single_gates>>

\* one iteration with layer % 2 != 0
QcOddLayer ==
    /\ fn = "get_qc_ub" /\ pc = "loop"
    /\ layer < d /\ layer % 2 # 0
    /\ \E pick \in [1..n -> 1..Len(single_gates)] :
          qc' = qc \o odd_layer(n, single_gates, pick)
    /\ layer' = layer + 1
    /\ UNCHANGED <<rzzVars, fn, pc, binVars, projVars, n, d, ovVars, single_gates, qi>>

\* one iteration with layer % 2 == 0
QcEvenLayer ==
    /\ fn = "get_qc_ub" /\ pc = "loop"
    /\ layer < d /\ layer % 2 = 0
    /\ \E shuffled \in shuffles(qi) :
          /\ qi' = shuffled
          /\ qc' = qc \o even_layer(n, shuffled)
    /\ layer' = layer + 1
    /\ UNCHANGED <<rzzVars, fn, pc, binVars, projVars, n, d, ovVars, single_gates>>

\* the loop is exhausted: return qc (drawstyle 'none' draws nothing)
QcReturn ==
    /\ fn = "get_qc_ub" /\ pc = "loop"
    /\ layer >= d
    /\ pc' = "done"
    /\ UNCHANGED <<rzzVars, fn, binVars, projVars, n, d, ovVars, qcVars>>

\* a statement of get_rzz is reached
RzzAt(l) == fn = "get_rzz" /\ pc = "call" /\ line = l

\* every name the statement reads is bound
RzzBound(l) == \A name \in rzz_reads(l) : name_bound(name, namespace, locals)

\* the statement reads an unbound name: NameError ends the call
RzzNameError ==
    /\ exc' = "NameError"
    /\ pc' = "done"
    /\ UNCHANGED <<line, locals, qc_zz, returned>>

RzzOthers == <<fn, binVars, projVars, n, d, ovVars, qcVars, namespace>>

\* line 3: qr_zz = QuantumRegister(2, 'qc_zz')
RzzRegister ==
    /\ RzzAt(3)
    /\ IF RzzBound(3)
       THEN /\ locals' = locals \cup {"qr_zz"}
            /\ line' = rzz_next_line(line)
            /\ UNCHANGED <<pc, qc_zz, returned, exc>>
       ELSE RzzNameError
    /\ UNCHANGED RzzOthers

\* line 4: qc_zz = QuantumCircuit(qr_zz)
RzzCircuit ==
    /\ RzzAt(4)
    /\ IF RzzBound(4)
       THEN /\ qc_zz' = rzz_empty_circuit
            /\ locals' = locals \cup {"qc_zz"}
            /\ line' = rzz_next_line(line)
            /\ UNCHANGED <<pc, returned, exc>>
       ELSE RzzNameError
    /\ UNCHANGED RzzOthers

\* lines 5, 6, 7 and 9: qc_zz.append(gate, [qubit])
RzzAppend ==
    /\ \E l \in {5, 6, 7, 9} :
          /\ RzzAt(l)
          /\ IF RzzBound(l)
             THEN /\ qc_zz' = [qc_zz EXCEPT !.ops = Append(@, rzz_appended(l))]
                  /\ line' = rzz_next_line(line)
                  /\ UNCHANGED <<pc, locals, returned, exc>>
             ELSE RzzNameError
    /\ UNCHANGED RzzOthers

\* line 8: qc_zz.cx(qr_zz[0], qr_zz[1])
RzzCx ==
    /\ RzzAt(8)
    /\ IF RzzBound(8)
       THEN /\ qc_zz' = [qc_zz EXCEPT
                           !.ops = Append(@, [name |-> "cx", qubits |-> <<0, 1>>])]
            /\ line' = rzz_next_line(line)
            /\ UNCHANGED <<pc, locals, returned, exc>>
       ELSE RzzNameError
    /\ UNCHANGED RzzOthers

\* line 11: qc_zz.global_phase += pi/4
RzzPhase ==
    /\ RzzAt(11)
    /\ IF RzzBound(11)
       THEN /\ qc_zz' = [qc_zz EXCEPT !.global_phase = RAdd(@, <<1, 4>>)]
            /\ line' = rzz_next_line(line)
            /\ UNCHANGED <<pc, locals, returned, exc>>
       ELSE RzzNameError
    /\ UNCHANGED RzzOthers

\* line 12: return qc_rzz
RzzReturn ==
    /\ RzzAt(12)
    /\ IF RzzBound(12)
       THEN /\ returned' = <<qc_zz>>
            /\ pc' = "done"
            /\ UNCHANGED <<line, locals, qc_zz, exc>>
       ELSE RzzNameError
    /\ UNCHANGED RzzOthers

Next ==
    \/ CallCreateBins
    \/ CallFindBin
    \/ CallProjector
    \/ CallOverhead
    \/ QcCreate
    \/ QcOddLayer
    \/ QcEvenLayer
    \/ QcReturn
    \/ RzzRegister
    \/ RzzCircuit
    \/ RzzAppend
    \/ RzzCx
    \/ RzzPhase
    \/ RzzReturn

Spec == Init /\ [][Next]_vars

\* ---- claims about create_bins ------------------------------------------
BinsReturned == fn = "create_bins" /\ pc = "done"

\* C1: for quantity >= 0 create_bins returns exactly `quantity` tuples, every
\* tuple satisfies bins[i][0] + width == bins[i][1], and the first lower
\* edge is lower_bound.
C1_BinsShape ==
    (BinsReturned /\ quantity >= 0) =>
        /\ Len(bins) = quantity
        /\ \A i \in 1..Len(bins) : bins[i][1] + width = bins[i][2]
        /\ (quantity > 0 => bins[1][1] = lower_bound)

C1_Witness ==
    /\ BinsReturned
    /\ quantity = 3 /\ width = 2 /\ lower_bound = 0 - 1
    /\ bins = << <<0 - 1, 1>>, <<1, 3>>, <<3, 5>> >>

\* C2: consecutive bins are shifted by exactly one width, so the upper edge
\* of bin i-1 is the lower edge of bin i.
C2_BinsShifted ==
    BinsReturned =>
        \A i \in 2..Len(bins) :
            /\ bins[i - 1][1] + width = bins[i][1]
            /\ bins[i - 1][2] + width = bins[i][2]
            /\ bins[i - 1][2] = bins[i][1]

C2_Witness ==
    /\ BinsReturned
    /\ Len(bins) = 3 /\ width = 1
    /\ bins[2][2] = bins[3][1]

\* C3: create_bins returns an ascending list of intervals: every lower edge
\* is greater than the one before it and below its own upper edge.
C3_BinsAscending ==
    BinsReturned =>
        \A i \in 1..Len(bins) :
            /\ bins[i][1] < bins[i][2]
            /\ (i > 1 => bins[i - 1][1] < bins[i][1])

\* ---- claims about find_bin ---------------------------------------------
FindReturned == fn = "find_bin" /\ pc = "done"

\* C4: when some bin satisfies bins[i][0] <= value < bins[i][1], find_bin
\* returns the smallest such index (lower edge inclusive, upper exclusive).
C4_FindSmallest ==
    (FindReturned /\ \E i \in 1..Len(bins) : bins[i][1] <= value /\ value < bins[i][2]) =>
        /\ found \in 0..(Len(bins) - 1)
        /\ bins[found + 1][1] <= value /\ value < bins[found + 1][2]
        /\ \A j \in 1..found : ~(bins[j][1] <= value /\ value < bins[j][2])

C4_Witness ==
    /\ FindReturned
    /\ bins = << <<0, 2>>, <<1, 2>> >> /\ value = 1 /\ found = 0

\* C5: find_bin returns -1 exactly when no bin contains the value, and an
\* index of bins otherwise.
C5_FindMiss ==
    FindReturned =>
        /\ (found = 0 - 1) <=>
               ~(\E i \in 1..Len(bins) : bins[i][1] <= value /\ value < bins[i][2])
        /\ (found # 0 - 1 => found \in 0..(Len(bins) - 1))

C5_Witness ==
    /\ FindReturned
    /\ bins = << <<0, 1>>, <<1, 2>> >> /\ value = 2 /\ found = 0 - 1

\* ---- claims about get_projector_geq_median ------------------------------
ProjectorReturned == fn = "get_projector_geq_median" /\ pc = "done"

\* the k-th smallest entry of s (k in 1..Len(s)), by counting
KthSmallest(s, k) ==
    CHOOSE x \in { s[i] : i \in 1..Len(s) } :
        /\ Cardinality({ i \in 1..Len(s) : s[i] < x }) < k
        /\ k <= Cardinality({ i \in 1..Len(s) : s[i] <= x })

\* twice the median: the sum of the two middle values (which coincide when
\* the length is odd)
TwiceMedian(s) ==
    KthSmallest(s, (Len(s) + 1) \div 2) + KthSmallest(s, (Len(s) \div 2) + 1)

\* C6: the 0/1 list has the length of probs; entry i is 1 iff
\* probs[i] >= median(probs) and 0 iff probs[i] < median(probs), the median of
\* an even-length vector being the mean of its two middle values.
C6_MaskMatchesMedian ==
    ProjectorReturned =>
        /\ Len(state_list) = Len(probs)
        /\ \A i \in 1..Len(state_list) :
              /\ state_list[i] \in {0, 1}
              /\ (state_list[i] = 1) <=> (2 * probs[i] >= TwiceMedian(probs))
              /\ (state_list[i] = 0) <=> (2 * probs[i] < TwiceMedian(probs))

C6_Witness ==
    /\ ProjectorReturned
    /\ probs = <<3, 0, 2, 1>>
    /\ state_list = <<1, 0, 1, 0>>

LenIsTwoToThe(s, k) == Len(s) = 2 ^ k

\* C7: for a probability vector of length 2^n the mask holds exactly 2^(n-1)
\* ones.
C7_HalfOnes ==
    ProjectorReturned =>
        \A k \in 1..MaxLen :
            LenIsTwoToThe(probs, k) => SumSeq(state_list) = 2 ^ (k - 1)

\* C8: the returned operator is the diagonal matrix with entry (i,i) equal to
\* 1 when probs[i] >= median and 0 otherwise, every off-diagonal entry 0, and
\* it is idempotent.
C8_DiagonalProjector ==
    ProjectorReturned =>
        LET N == Len(probs)
            A == projector
        IN  /\ \A i \in 1..N : \A j \in 1..N :
                  A[i][j] = IF i = j /\ 2 * probs[i] >= TwiceMedian(probs) THEN 1 ELSE 0
            /\ \A i \in 1..N : \A j \in 1..N :
                  SumSeq([m \in 1..N |-> A[i][m] * A[m][j]]) = A[i][j]

\* ---- claims about calc_sim_overhead -------------------------------------
OverheadReturned == fn = "calc_sim_overhead" /\ pc = "done"

\* C9: for 0 <= epsilon < 1, calc_sim_overhead(n, d, epsilon) is
\* ((1 + epsilon/2)/(1 - epsilon))^(n*d/2) * ((1 + 7*epsilon/8)/(1 - epsilon))^(n*d/4),
\* the value of the inline gamma_b expression.  With epsilon = k/q the two
\* bases are (2q + k)/(2(q - k)) and (8q + 7k)/(8(q - k)); an integer power
\* is compared by cross-multiplication, a fractional one by base and exponent.
C9_OverheadFormula ==
    OverheadReturned =>
        LET k  == epsilon[1]
            q  == epsilon[2]
            nd == n * d
            a1 == 2 * q + k
            b1 == 2 * (q - k)
            a2 == 8 * q + 7 * k
            b2 == 8 * (q - k)
            int1 == nd % 2 = 0 \/ a1 = b1
            int2 == nd % 4 = 0 \/ a2 = b2
            e1 == IF nd % 2 = 0 THEN nd \div 2 ELSE 0
            e2 == IF nd % 4 = 0 THEN nd \div 4 ELSE 0
            root1 == IF int1 THEN <<>> ELSE << <<Rat(a1, b1), Rat(nd, 2)>> >>
            root2 == IF int2 THEN <<>> ELSE << <<Rat(a2, b2), Rat(nd, 4)>> >>
        IN  /\ gamma_b.coef[1] * (b1 ^ e1) * (b2 ^ e2)
                  = gamma_b.coef[2] * (a1 ^ e1) * (a2 ^ e2)
            /\ gamma_b.roots = root1 \o root2
            /\ gamma_b = gamma_b_inline(n, d, epsilon)

C9_Witness ==
    /\ OverheadReturned
    /\ n = 2 /\ d = 2 /\ epsilon = <<1, 2>>
    /\ gamma_b = [coef |-> <<575, 32>>, roots |-> <<>>]

\* ---- claims about get_qc_ub ---------------------------------------------
\* the number of barriers among the first k instructions of qc: the index of
\* the layer instruction k+1 belongs to
BarriersBefore(k) == Cardinality({ i \in 1..k : qc[i].name = "barrier" })

\* the instructions of layer l, barrier excluded
LayerGates(l) ==
    { i \in 1..Len(qc) : qc[i].name # "barrier" /\ BarriersBefore(i - 1) = l }

\* C10: get_qc_ub builds exactly d layers, layer index 0..d-1 in order: an
\* odd-indexed layer holds single-qubit gates drawn from single_gates (one per
\* qubit), an even-indexed layer holds CNOTs (one per pair), exactly one
\* barrier follows each layer, and the returned circuit holds d barriers.
C10_LayersAlternate ==
    (fn = "get_qc_ub" /\ pc \in {"loop", "done"}) =>
        /\ layer <= d
        /\ BarriersBefore(Len(qc)) = layer
        /\ (pc = "done" => BarriersBefore(Len(qc)) = d)
        /\ (qc # <<>> => qc[Len(qc)].name = "barrier")
        /\ \A l \in 0..(layer - 1) :
              IF l % 2 # 0
              THEN /\ Cardinality(LayerGates(l)) = n
                   /\ \A i \in LayerGates(l) :
                         /\ Len(qc[i].qubits) = 1
                         /\ \E g \in 1..Len(single_gates) : qc[i].name = single_gates[g]
              ELSE /\ Cardinality(LayerGates(l)) = n \div 2
                   /\ \A i \in LayerGates(l) :
                         qc[i].name = "cx" /\ Len(qc[i].qubits) = 2

C10_Witness ==
    /\ fn = "get_qc_ub" /\ pc = "done"
    /\ n = 2 /\ d = 3 /\ Len(qc) = 7
    /\ qc[1].name = "cx" /\ qc[2].name = "barrier"
    /\ qc[3].name = "h" /\ qc[4].name = "s" /\ qc[5].name = "barrier"
    /\ qc[6].name = "cx" /\ qc[7].name = "barrier"

\* ---- claims about get_rzz -----------------------------------------------
\* C11: get_rzz() builds a two-qubit circuit holding, in order, SDG on qubit
\* 0, SDG on qubit 1, SY on qubit 1, CNOT with control 0 and target 1, SYDG on
\* qubit 1, with the global phase raised by pi/4; the call completes without
\* raising and returns the circuit it built.
C11_RzzReturnsCircuit ==
    (fn = "get_rzz" /\ pc = "done") =>
        /\ exc = "none"
        /\ returned = <<qc_zz>>
        /\ qc_zz.ops = << [name |-> "sdg",  qubits |-> <<0>>],
                          [name |-> "sdg",  qubits |-> <<1>>],
                          [name |-> "sy",   qubits |-> <<1>>],
                          [name |-> "cx",   qubits |-> <<0, 1>>],
                          [name |-> "sydg", qubits |-> <<1>>] >>
        /\ qc_zz.global_phase = <<1, 4>>

\* ---- claims about the duplicated helpers --------------------------------
\* C12: on every input create_bins and find_bin of fcn_bin.py return what
\* create_bins and find_bin of pec/pec-num-sim.py return, and
\* get_projector_geq_median of fcn_pec.py builds the 0/1 list that
\* get_projector_geq_med of pec/pec-num-sim.py builds.
C12_DuplicatesAgree ==
    /\ BinsReturned => bins = sim_create_bins(lower_bound, width, quantity)
    /\ FindReturned => found = sim_find_bin(value, bins)
    /\ ProjectorReturned => state_list = sim_geq_med_list(probs)

C12_Witness ==
    /\ FindReturned
    /\ bins = << <<1, 2>>, <<0, 1>> >> /\ value = 0
    /\ found = 1 /\ sim_find_bin(value, bins) = 1
====
